---- MODULE Spec2Model ----
(***************************************************************************)
(* Model of the Keithley 2230 driver (src/src/lib.rs).                     *)
(*                                                                         *)
(* Text on the wire (commands and response lines) is a sequence of         *)
(* one-character strings.  The driver's state is the position of each      *)
(* caller inside a public operation; the instrument behind the transport   *)
(* is a selected channel, one output state per channel and an output       *)
(* buffer holding the answer to the last query.                            *)
(***************************************************************************)
EXTENDS Integers, Sequences, FiniteSets, TLC

\* ------------------------------------------------------------------ bounds
NumCallers == 2
MaxFields == 4

Callers == 1..NumCallers

\* ------------------------------------------------------- protocol vocabulary
Channel == {"CH1", "CH2", "CH3"}
ChannelOutputState == {"ON", "OFF"}
PowerSupplyState == {"ON", "OFF"}
Parallel == {"ON", "OFF"}
Series == {"ON", "OFF"}

ChannelDisplay_swapped(channel) ==
    CASE channel = "CH1" -> <<"C", "H", "1">>
      [] channel = "CH2" -> <<"C", "H", "3">>
      [] channel = "CH3" -> <<"C", "H", "2">>

ChannelDisplay(channel) ==
    CASE channel = "CH1" -> <<"C", "H", "1">>
      [] channel = "CH2" -> <<"C", "H", "2">>
      [] channel = "CH3" -> <<"C", "H", "3">>

PowerSupplyStateDisplay(state) ==
    CASE state = "ON" -> <<"O", "N">>
      [] state = "OFF" -> <<"O", "F", "F">>

ChannelOutputStateDisplay_lower(state) ==
    CASE state = "ON" -> <<"o", "n">>
      [] state = "OFF" -> <<"o", "f", "f">>

ChannelOutputStateDisplay(state) ==
    CASE state = "ON" -> <<"O", "N">>
      [] state = "OFF" -> <<"O", "F", "F">>

\* Decoder of an output-state token on the receive path (spec, 3 and 4.1):
\* "ON" and "1" are ON, "OFF" and "0" are OFF, anything else is an error.
ParseState(token) ==
    CASE token \in {<<"O", "N">>, <<"1">>} -> [ok |-> TRUE, state |-> "ON"]
      [] token \in {<<"O", "F", "F">>, <<"0">>} -> [ok |-> TRUE, state |-> "OFF"]
      [] OTHER -> [ok |-> FALSE, state |-> "-"]

\* ------------------------------------------------------------- f32 values
\* An f32 is sign, class and, for a finite number, the decimal m * 10^e with
\* m not divisible by 10 (m = 0 has e = 0).  The strings of the model have at
\* most 6 significant digits, which decimal -> f32 conversion keeps apart.
F32(neg, m, e) == [neg |-> neg, cls |-> "num", m |-> m, e |-> e]
F32Inf(neg) == [neg |-> neg, cls |-> "inf", m |-> 0, e |-> 0]
F32NaN(neg) == [neg |-> neg, cls |-> "nan", m |-> 0, e |-> 0]
Zero == F32(FALSE, 0, 0)

RECURSIVE Normalize(_, _, _)
Normalize(neg, m, e) ==
    IF m = 0 THEN F32(neg, 0, 0)
    ELSE IF m % 10 = 0 THEN Normalize(neg, m \div 10, e + 1)
    ELSE F32(neg, m, e)

Digits == <<"0", "1", "2", "3", "4", "5", "6", "7", "8", "9">>
IsDigit(ch) == \E d \in 1..10 : Digits[d] = ch
DigitVal(ch) == (CHOOSE d \in 1..10 : Digits[d] = ch) - 1

Take(s, n) == SubSeq(s, 1, n)
Drop(s, n) == SubSeq(s, n + 1, Len(s))

RECURSIVE DigitRun(_)
DigitRun(s) ==
    IF s = <<>> \/ ~IsDigit(Head(s)) THEN 0 ELSE 1 + DigitRun(Tail(s))

RECURSIVE DigitsValue(_)
DigitsValue(s) ==
    IF s = <<>> THEN 0
    ELSE DigitsValue(Take(s, Len(s) - 1)) * 10 + DigitVal(s[Len(s)])

RECURSIVE NatDigits(_)
NatDigits(n) ==
    IF n < 10 THEN <<Digits[n + 1]>>
    ELSE NatDigits(n \div 10) \o <<Digits[(n % 10) + 1]>>

RECURSIVE Zeros(_)
Zeros(n) == IF n <= 0 THEN <<>> ELSE <<"0">> \o Zeros(n - 1)

\* Display of f32: shortest decimal, no exponent, no trailing ".0"
F32Display(v) ==
    LET sign == IF v.neg THEN <<"-">> ELSE <<>>
        ds == NatDigits(v.m)
    IN  CASE v.cls = "inf" -> sign \o <<"i", "n", "f">>
          [] v.cls = "nan" -> <<"N", "a", "N">>
          [] v.cls = "num" /\ v.e >= 0 -> sign \o ds \o Zeros(v.e)
          [] v.cls = "num" /\ v.e < 0 /\ Len(ds) > -v.e ->
                sign \o Take(ds, Len(ds) + v.e) \o <<".">> \o Drop(ds, Len(ds) + v.e)
          [] v.cls = "num" /\ v.e < 0 /\ Len(ds) <= -v.e ->
                sign \o <<"0", ".">> \o Zeros(-v.e - Len(ds)) \o ds

\* ------------------------------------------------------------ str helpers
WhiteSpace == {" ", "\t", "\n", "\r"}

RECURSIVE TrimStart(_)
TrimStart(s) ==
    IF s # <<>> /\ Head(s) \in WhiteSpace THEN TrimStart(Tail(s)) ELSE s

RECURSIVE TrimEnd(_)
TrimEnd(s) ==
    IF s # <<>> /\ s[Len(s)] \in WhiteSpace THEN TrimEnd(Take(s, Len(s) - 1)) ELSE s

Trim(s) == TrimEnd(TrimStart(s))

\* str::split(','): the pieces between commas; the empty string has one piece
RECURSIVE Split(_)
Split(s) ==
    IF \E i \in 1..Len(s) : s[i] = ","
    THEN LET i == CHOOSE k \in 1..Len(s) : s[k] = "," /\ \A j \in 1..(k - 1) : s[j] # ","
         IN  <<Take(s, i - 1)>> \o Split(Drop(s, i))
    ELSE <<s>>

ToLower(ch) ==
    CASE ch = "I" -> "i" [] ch = "N" -> "n" [] ch = "F" -> "f" [] ch = "A" -> "a"
      [] ch = "T" -> "t" [] ch = "Y" -> "y" [] OTHER -> ch

Lower(s) == [i \in 1..Len(s) |-> ToLower(s[i])]

\* ------------------------------------------------------ str::parse::<f32>
\* Result of a parse: [ok |-> TRUE, val |-> f32] or [ok |-> FALSE, val |-> Zero]
ParseOk(v) == [ok |-> TRUE, val |-> v]
ParseErr == [ok |-> FALSE, val |-> Zero]

\* digits [ "." digits ] [ ("e"|"E") [sign] digits ], at least one mantissa digit
ParseNumber(neg, s) ==
    LET ni == DigitRun(s)
        r1 == Drop(s, ni)
        hasDot == r1 # <<>> /\ Head(r1) = "."
        r2 == IF hasDot THEN Tail(r1) ELSE r1
        nf == IF hasDot THEN DigitRun(r2) ELSE 0
        r3 == Drop(r2, nf)
        mant == DigitsValue(Take(s, ni) \o Take(r2, nf))
    IN  IF ni + nf = 0 THEN ParseErr
        ELSE IF r3 = <<>> THEN ParseOk(Normalize(neg, mant, -nf))
        ELSE IF Head(r3) \notin {"e", "E"} THEN ParseErr
        ELSE LET r4 == Tail(r3)
                 eneg == r4 # <<>> /\ Head(r4) = "-"
                 r5 == IF r4 # <<>> /\ Head(r4) \in {"+", "-"} THEN Tail(r4) ELSE r4
                 ne == DigitRun(r5)
                 ex == DigitsValue(Take(r5, ne))
             IN  IF ne = 0 \/ ne # Len(r5) THEN ParseErr
                 ELSE ParseOk(Normalize(neg, mant, (IF eneg THEN -ex ELSE ex) - nf))

ParseInfNan(neg, s) ==
    LET l == Lower(s)
    IN  IF l = <<"n", "a", "n">> THEN ParseOk(F32NaN(neg))
        ELSE IF l = <<"i", "n", "f">> \/ l = <<"i", "n", "f", "i", "n", "i", "t", "y">>
             THEN ParseOk(F32Inf(neg))
        ELSE ParseErr

ParseF32(s) ==
    LET neg == s # <<>> /\ Head(s) = "-"
        body == IF s # <<>> /\ Head(s) \in {"+", "-"} THEN Tail(s) ELSE s
        num == ParseNumber(neg, body)
    IN  IF body = <<>> THEN ParseErr
        ELSE IF num.ok THEN num
        ELSE ParseInfNan(neg, body)

\* |x| x.trim().parse::<f32>().ok().unwrap_or(0.0)
FieldValue_untrimmed(x) == LET p == ParseF32(x) IN IF p.ok THEN p.val ELSE Zero

FieldValue(x) == LET p == ParseF32(Trim(x)) IN IF p.ok THEN p.val ELSE Zero

\* lines 143-152: split, map, collect, then the length test
ParseTriple_nocheck(response) ==
    LET v == [i \in 1..Len(Split(response)) |-> FieldValue(Split(response)[i])]
        at(i) == IF i <= Len(v) THEN v[i] ELSE Zero
    IN  <<at(1), at(2), at(3)>>

ParseTriple(response) ==
    LET v == [i \in 1..Len(Split(response)) |-> FieldValue(Split(response)[i])]
    IN  IF Len(v) = 3 THEN <<v[1], v[2], v[3]>> ELSE <<Zero, Zero, Zero>>


\* ------------------------------------------------------- command formatter
\* format!("APPL {}, {}, {}", channel, voltage, current)
FormatAppl(channel, voltage, current) ==
    <<"A", "P", "P", "L", " ">> \o ChannelDisplay(channel) \o <<",", " ">> \o F32Display(voltage)
        \o <<",", " ">> \o F32Display(current)

\* format!("OUTP:ENAB {}", state), lines 86 and 92
FormatOutpEnab(state) == <<"O", "U", "T", "P", ":", "E", "N", "A", "B", " ">> \o PowerSupplyStateDisplay(state)

FormatOutpEnabChannels(state) == <<"O", "U", "T", "P", ":", "E", "N", "A", "B", " ">> \o ChannelOutputStateDisplay(state)

\* format!("CHAN:OUTP {}", state)
FormatChanOutp(state) == <<"C", "H", "A", "N", ":", "O", "U", "T", "P", " ">> \o ChannelOutputStateDisplay(state)

\* format!("INST {}", channel)
FormatInst(channel) == <<"I", "N", "S", "T", " ">> \o ChannelDisplay(channel)

CmdInstQuery == <<"I", "N", "S", "T", "?">>
CmdSystLoc == <<"S", "Y", "S", "T", ":", "L", "O", "C">>
CmdSystRem == <<"S", "Y", "S", "T", ":", "R", "E", "M">>
CmdFetcCurr == <<"F", "E", "T", "C", ":", "C", "U", "R", "R", "?", " ", "A", "L", "L">>
CmdFetcVolt == <<"F", "E", "T", "C", ":", "V", "O", "L", "T", "?", " ", "A", "L", "L">>
CmdFetcPow == <<"F", "E", "T", "C", ":", "P", "O", "W", "?", " ", "A", "L", "L">>

ParallelCommand_on_off(parallel) ==
    CASE parallel = "ON" -> <<"O", "U", "T", "P", ":", "P", "A", "R", " ", "O", "N">>
      [] parallel = "OFF" -> <<"O", "U", "T", "P", ":", "P", "A", "R", " ", "O", "F", "F">>

ParallelCommand(parallel) ==
    CASE parallel = "ON" -> <<"O", "U", "T", "P", ":", "P", "A", "R", " ", "C", "H", "1", "C", "H", "2">>
      [] parallel = "OFF" -> <<"O", "U", "T", "P", ":", "P", "A", "R", " ", "O", "F", "F">>

SeriesCommand(series) ==
    CASE series = "ON" -> <<"O", "U", "T", "P", ":", "S", "E", "R", " ", "O", "N">>
      [] series = "OFF" -> <<"O", "U", "T", "P", ":", "S", "E", "R", " ", "O", "F", "F">>

\* match channel.trim() { "CH1" => .., "CH2" => .., "CH3" => .., _ => unreachable!() }
DecodeChannel_shifted(text) ==
    CASE Trim(text) = <<"C", "H", "1">> -> [ok |-> TRUE, channel |-> "CH2"]
      [] Trim(text) = <<"C", "H", "2">> -> [ok |-> TRUE, channel |-> "CH3"]
      [] Trim(text) = <<"C", "H", "3">> -> [ok |-> TRUE, channel |-> "CH1"]
      [] OTHER -> [ok |-> FALSE, channel |-> "-"]

DecodeChannel(text) ==
    CASE Trim(text) = <<"C", "H", "1">> -> [ok |-> TRUE, channel |-> "CH1"]
      [] Trim(text) = <<"C", "H", "2">> -> [ok |-> TRUE, channel |-> "CH2"]
      [] Trim(text) = <<"C", "H", "3">> -> [ok |-> TRUE, channel |-> "CH3"]
      [] OTHER -> [ok |-> FALSE, channel |-> "-"]

\* ------------------------------------------------------------ the instrument
\* What the instrument behind the session understands (spec, 4.2) and what it
\* answers (spec, 4.3); its channels are numbered 1, 2, 3.
DevChannels == 1..3
DevToken == <<<<"C", "H", "1">>, <<"C", "H", "2">>, <<"C", "H", "3">>>>
DevSelect == <<<<"I", "N", "S", "T", " ", "C", "H", "1">>, <<"I", "N", "S", "T", " ", "C", "H", "2">>, <<"I", "N", "S", "T", " ", "C", "H", "3">>>>
DevQueryChannel == <<"I", "N", "S", "T", "?">>
DevChanOutpOn == <<"C", "H", "A", "N", ":", "O", "U", "T", "P", " ", "O", "N">>
DevChanOutpOff == <<"C", "H", "A", "N", ":", "O", "U", "T", "P", " ", "O", "F", "F">>
DevMeasureQueries == {<<"F", "E", "T", "C", ":", "C", "U", "R", "R", "?", " ", "A", "L", "L">>, <<"F", "E", "T", "C", ":", "V", "O", "L", "T", "?", " ", "A", "L", "L">>, <<"F", "E", "T", "C", ":", "P", "O", "W", "?", " ", "A", "L", "L">>}

\* answers to INST?: the token of the selected channel, bare or with white
\* space around it, or a token the vocabulary does not know
UnknownToken == <<"C", "H", "9">>
InstAnswers(n) ==
    {DevToken[n], DevToken[n] \o <<"\n">>, <<" ">> \o DevToken[n], UnknownToken}

RECURSIVE Join(_)
Join(fields) ==
    IF Len(fields) = 0 THEN <<>>
    ELSE IF Len(fields) = 1 THEN fields[1]
    ELSE fields[1] \o <<",">> \o Join(Tail(fields))

\* fields a measurement answer is made of
FieldSamples == {<<"1", ".", "0">>, <<" ", "2", ".", "5", "\n">>, <<"b", "a", "d">>, <<>>, <<"-", "3", "e", "1">>}
FewFieldSamples == {<<"1", ".", "0">>, <<"b", "a", "d">>}

TuplesOf(S, n) == [1..n -> S]
LinesOf(S) == {Join(fs) : fs \in UNION {TuplesOf(S, n) : n \in 1..MaxFields}}
AllLines == LinesOf(FieldSamples)
FewLines == LinesOf(FewFieldSamples)

Floats == {F32(FALSE, 3, 1), F32(FALSE, 1, -3)}


\* ------------------------------------------------------------------- state
VARIABLES
    sel,      \* instrument: the selected channel
    outp,     \* instrument: output state of each channel (TRUE = ON)
    obuf,     \* instrument: answer to the last query, until it is read
    pc,       \* per caller: position inside the operation it runs
    op,       \* per caller: the operation and its arguments
    prev,     \* per caller: previous_channel of enable_channel
    io,       \* per caller: the transport calls of the operation, in order
    ret,      \* per caller: the value the operation returned
    entry,    \* per caller: the instrument's state when the operation began
    lastSel,  \* history: the last successful select_channel call and its caller
    clean,    \* history: no operation has failed or panicked so far
    prevCall  \* history: the enable_channel call that returned Ok last, if the
              \* last operation that returned was one

vars == <<sel, outp, obuf, pc, op, prev, io, ret, entry, lastSel, clean, prevCall>>
hist == <<clean, prevCall>>
dev == <<sel, outp, obuf>>

Empty == [full |-> FALSE, text |-> <<>>]
Full(text) == [full |-> TRUE, text |-> text]

Op(name, channel, state, voltage, current) ==
    [name |-> name, channel |-> channel, state |-> state,
     voltage |-> voltage, current |-> current]
NoOp == Op("none", "-", "-", Zero, Zero)
Op0(name) == Op(name, "-", "-", Zero, Zero)

NoCall == [set |-> FALSE, channel |-> "-", state |-> "-"]
Call(channel, state) == [set |-> TRUE, channel |-> channel, state |-> state]
NoEntry == [sel |-> 0, outp |-> [n \in DevChannels |-> FALSE]]
NoRet == [kind |-> "none", val |-> "-"]
Ok(v) == [kind |-> "Ok", val |-> v]
Err == [kind |-> "Err", val |-> "VisaApiError"]
Panic == [kind |-> "Panic", val |-> "unreachable"]

WriteCall(command, ok) == [t |-> "write", text |-> command, ok |-> ok]
ReadCall(text, ok) == [t |-> "read", text |-> text, ok |-> ok]

Init ==
    /\ sel = 1
    /\ outp = [n \in DevChannels |-> FALSE]
    /\ obuf = Empty
    /\ pc = [c \in Callers |-> "idle"]
    /\ op = [c \in Callers |-> NoOp]
    /\ prev = [c \in Callers |-> "-"]
    /\ io = [c \in Callers |-> <<>>]
    /\ ret = [c \in Callers |-> NoRet]
    /\ entry = [c \in Callers |-> NoEntry]
    /\ lastSel = [by |-> 0, channel |-> "CH1"]
    /\ clean = TRUE
    /\ prevCall = NoCall

\* ------------------------------------------------------------ the instrument
\* The instrument takes one command line.  A query replaces the content of the
\* output buffer by its answer, any other command empties it.
DeviceReceive(command, lines) ==
    IF command = DevQueryChannel
    THEN /\ \E a \in InstAnswers(sel) : obuf' = Full(a)
         /\ UNCHANGED <<sel, outp>>
    ELSE IF command \in DevMeasureQueries
    THEN /\ \E line \in lines : obuf' = Full(line)
         /\ UNCHANGED <<sel, outp>>
    ELSE IF \E n \in DevChannels : command = DevSelect[n]
    THEN /\ sel' = CHOOSE n \in DevChannels : command = DevSelect[n]
         /\ obuf' = Empty
         /\ UNCHANGED outp
    ELSE IF command \in {DevChanOutpOn, DevChanOutpOff}
    THEN /\ outp' = [outp EXCEPT ![sel] = (command = DevChanOutpOn)]
         /\ obuf' = Empty
         /\ UNCHANGED sel
    ELSE /\ obuf' = Empty
         /\ UNCHANGED <<sel, outp>>

\* ---------------------------------------------------------------- transport
\* visa_api::Instrument::write: a failed write does not reach the instrument
Write(c, command, ok, lines) ==
    /\ io' = [io EXCEPT ![c] = Append(@, WriteCall(command, ok))]
    /\ IF ok THEN DeviceReceive(command, lines) ELSE UNCHANGED dev

\* visa_api::Instrument::read: takes the line out of the output buffer; it
\* fails when the transport fails or when there is nothing to read
Read(c, ok) ==
    /\ ok => obuf.full
    /\ io' = [io EXCEPT ![c] = Append(@, ReadCall(IF ok THEN obuf.text ELSE <<>>, ok))]
    /\ obuf' = Empty
    /\ UNCHANGED <<sel, outp>>

\* ------------------------------------------------------------------ callers
\* &mut self: a caller enters an operation only when no other caller is inside one
Exclusive_shared(c) == TRUE

Exclusive(c) == \A d \in Callers \ {c} : pc[d] = "idle"

Invoke(c, o) ==
    /\ pc[c] = "idle"
    /\ Exclusive(c)
    /\ op' = [op EXCEPT ![c] = o]
    /\ entry' = [entry EXCEPT ![c] = [sel |-> sel, outp |-> outp]]

Goto(c, label) ==
    /\ pc' = [pc EXCEPT ![c] = label]
    /\ UNCHANGED ret

Finish(c, r) ==
    /\ pc' = [pc EXCEPT ![c] = "done"]
    /\ ret' = [ret EXCEPT ![c] = r]

Unwind(c) ==
    /\ pc' = [pc EXCEPT ![c] = "panicked"]
    /\ ret' = [ret EXCEPT ![c] = Panic]

\* an operation that is one write: Ok(()) or the error of the write
WriteOnly(c, o, command) ==
    \E ok \in BOOLEAN :
        /\ Invoke(c, o)
        /\ Write(c, command, ok, FewLines)
        /\ Finish(c, IF ok THEN Ok("()") ELSE Err)
        /\ lastSel' = IF ok /\ o.name = "select_channel"
                      THEN [by |-> c, channel |-> o.channel] ELSE lastSel
        /\ UNCHANGED prev

set_channel_selects(c) ==
    \E channel \in Channel, voltage \in Floats, current \in Floats :
        WriteOnly(c, Op("set_channel", channel, "-", voltage, current),
                  FormatInst(channel))

set_channel(c) ==
    \E channel \in Channel, voltage \in Floats, current \in Floats :
        WriteOnly(c, Op("set_channel", channel, "-", voltage, current),
                  FormatAppl(channel, voltage, current))

enable_output(c) ==
    \E state \in PowerSupplyState :
        WriteOnly(c, Op("enable_output", "-", state, Zero, Zero), FormatOutpEnab(state))

enable_channels(c) ==
    \E state \in ChannelOutputState :
        WriteOnly(c, Op("enable_channels", "-", state, Zero, Zero),
                  FormatOutpEnabChannels(state))

select_channel(c) ==
    \E channel \in Channel :
        WriteOnly(c, Op("select_channel", channel, "-", Zero, Zero), FormatInst(channel))

switch_to_front_panel_control(c) ==
    WriteOnly(c, Op0("switch_to_front_panel_control"), CmdSystLoc)

switch_to_front_remote_control(c) ==
    WriteOnly(c, Op0("switch_to_front_remote_control"), CmdSystRem)

set_parallel(c) ==
    \E parallel \in Parallel :
        WriteOnly(c, Op("set_parallel", "-", parallel, Zero, Zero), ParallelCommand(parallel))

set_series(c) ==
    \E series \in Series :
        WriteOnly(c, Op("set_series", "-", series, Zero, Zero), SeriesCommand(series))

\* ---- get_channel, lines 112-122
get_channel_write_reads_anyway(c) ==
    \E ok \in BOOLEAN :
        /\ Invoke(c, Op0("get_channel"))
        /\ Write(c, CmdInstQuery, ok, FewLines)
        /\ Goto(c, "get_channel:114")
        /\ UNCHANGED <<prev, lastSel>>

get_channel_write(c) ==
    \E ok \in BOOLEAN :
        /\ Invoke(c, Op0("get_channel"))
        /\ Write(c, CmdInstQuery, ok, FewLines)
        /\ IF ok THEN Goto(c, "get_channel:114") ELSE Finish(c, Err)
        /\ UNCHANGED <<prev, lastSel>>

get_channel_read(c) ==
    \E ok \in BOOLEAN :
        /\ pc[c] = "get_channel:114"
        /\ Read(c, ok)
        /\ IF ~ok THEN Finish(c, Err)
           ELSE IF DecodeChannel(obuf.text).ok
                THEN Finish(c, Ok(DecodeChannel(obuf.text).channel))
                ELSE Unwind(c)
        /\ UNCHANGED <<op, prev, entry, lastSel>>

\* ---- enable_channel, lines 97-110
\* line 99, first half: the write of get_channel
enable_channel_query_goes_on(c) ==
    \E channel \in Channel, state \in ChannelOutputState, ok \in BOOLEAN :
        /\ Invoke(c, Op("enable_channel", channel, state, Zero, Zero))
        /\ Write(c, CmdInstQuery, ok, FewLines)
        /\ Goto(c, "enable_channel:99")
        /\ UNCHANGED <<prev, lastSel>>

enable_channel_query(c) ==
    \E channel \in Channel, state \in ChannelOutputState, ok \in BOOLEAN :
        /\ Invoke(c, Op("enable_channel", channel, state, Zero, Zero))
        /\ Write(c, CmdInstQuery, ok, FewLines)
        /\ IF ok THEN Goto(c, "enable_channel:99") ELSE Finish(c, Err)
        /\ UNCHANGED <<prev, lastSel>>

\* line 99, second half: the read and the decoding of get_channel
enable_channel_save(c) ==
    \E ok \in BOOLEAN :
        /\ pc[c] = "enable_channel:99"
        /\ Read(c, ok)
        /\ IF ~ok THEN Finish(c, Err) /\ UNCHANGED prev
           ELSE IF DecodeChannel(obuf.text).ok
                THEN /\ Goto(c, "enable_channel:102")
                     /\ prev' = [prev EXCEPT ![c] = DecodeChannel(obuf.text).channel]
                ELSE Unwind(c) /\ UNCHANGED prev
        /\ UNCHANGED <<op, entry, lastSel>>

\* line 102: self.select_channel(channel)?
enable_channel_select_skipped(c) ==
    /\ pc[c] = "enable_channel:102"
    /\ Goto(c, "enable_channel:105")
    /\ UNCHANGED <<dev, io, op, prev, entry, lastSel>>

enable_channel_select_retry(c) ==
    \E ok \in BOOLEAN :
        /\ pc[c] = "enable_channel:102"
        /\ Write(c, FormatInst(op[c].channel), ok, FewLines)
        /\ Goto(c, IF ok THEN "enable_channel:105" ELSE "enable_channel:102")
        /\ UNCHANGED <<op, prev, entry, lastSel>>

enable_channel_select(c) ==
    \E ok \in BOOLEAN :
        /\ pc[c] = "enable_channel:102"
        /\ Write(c, FormatInst(op[c].channel), ok, FewLines)
        /\ IF ok THEN Goto(c, "enable_channel:105") ELSE Finish(c, Err)
        /\ UNCHANGED <<op, prev, entry, lastSel>>

\* lines 104-105: the toggle of the selected channel
enable_channel_toggle_goes_on(c) ==
    \E ok \in BOOLEAN :
        /\ pc[c] = "enable_channel:105"
        /\ Write(c, FormatChanOutp(op[c].state), ok, FewLines)
        /\ Goto(c, "enable_channel:108")
        /\ UNCHANGED <<op, prev, entry, lastSel>>

enable_channel_toggle(c) ==
    \E ok \in BOOLEAN :
        /\ pc[c] = "enable_channel:105"
        /\ Write(c, FormatChanOutp(op[c].state), ok, FewLines)
        /\ IF ok THEN Goto(c, "enable_channel:108") ELSE Finish(c, Err)
        /\ UNCHANGED <<op, prev, entry, lastSel>>

\* line 108: self.select_channel(previous_channel)?
enable_channel_restore_target(c) ==
    \E ok \in BOOLEAN :
        /\ pc[c] = "enable_channel:108"
        /\ Write(c, FormatInst(op[c].channel), ok, FewLines)
        /\ Finish(c, IF ok THEN Ok("()") ELSE Err)
        /\ UNCHANGED <<op, prev, entry, lastSel>>

enable_channel_restore_swallow(c) ==
    \E ok \in BOOLEAN :
        /\ pc[c] = "enable_channel:108"
        /\ Write(c, FormatInst(prev[c]), ok, FewLines)
        /\ Finish(c, Ok("()"))
        /\ UNCHANGED <<op, prev, entry, lastSel>>

enable_channel_restore_unless_same(c) ==
    \E ok \in BOOLEAN :
        /\ pc[c] = "enable_channel:108"
        /\ IF prev[c] = op[c].channel
           THEN ok /\ UNCHANGED <<dev, io>>
           ELSE Write(c, FormatInst(prev[c]), ok, FewLines)
        /\ Finish(c, IF ok THEN Ok("()") ELSE Err)
        /\ UNCHANGED <<op, prev, entry, lastSel>>

enable_channel_restore_skipped(c) ==
    /\ pc[c] = "enable_channel:108"
    /\ Finish(c, Ok("()"))
    /\ UNCHANGED <<dev, io, op, prev, entry, lastSel>>

enable_channel_restore(c) ==
    \E ok \in BOOLEAN :
        /\ pc[c] = "enable_channel:108"
        /\ Write(c, FormatInst(prev[c]), ok, FewLines)
        /\ Finish(c, IF ok THEN Ok("()") ELSE Err)
        /\ UNCHANGED <<op, prev, entry, lastSel>>

\* ---- read_current, read_voltage, read_power, lines 140-183
MeasureWrite(c, name, command, label, lines) ==
    \E ok \in BOOLEAN :
        /\ Invoke(c, Op0(name))
        /\ Write(c, command, ok, lines)
        /\ IF ok THEN Goto(c, label) ELSE Finish(c, Err)
        /\ UNCHANGED <<prev, lastSel>>

MeasureRead_strict(c, label) ==
    \E ok \in BOOLEAN :
        /\ pc[c] = label
        /\ Read(c, ok)
        /\ Finish(c, IF ok /\ Len(Split(obuf.text)) = 3
                           /\ \A i \in 1..3 : ParseF32(Trim(Split(obuf.text)[i])).ok
                     THEN Ok(ParseTriple(obuf.text)) ELSE Err)
        /\ UNCHANGED <<op, prev, entry, lastSel>>

MeasureRead(c, label) ==
    \E ok \in BOOLEAN :
        /\ pc[c] = label
        /\ Read(c, ok)
        /\ Finish(c, IF ok THEN Ok(ParseTriple(obuf.text)) ELSE Err)
        /\ UNCHANGED <<op, prev, entry, lastSel>>

read_current_write(c, lines) ==
    MeasureWrite(c, "read_current", CmdFetcCurr, "read_current:142", lines)
read_current_read(c) == MeasureRead(c, "read_current:142")

read_voltage_write(c, lines) ==
    MeasureWrite(c, "read_voltage", CmdFetcVolt, "read_voltage:157", lines)
read_voltage_read(c) == MeasureRead(c, "read_voltage:157")

read_power_write(c, lines) ==
    MeasureWrite(c, "read_power", CmdFetcPow, "read_power:172", lines)
read_power_read(c) == MeasureRead(c, "read_power:172")

\* the result, or the panic, reaches the caller; the borrow of the driver ends
Return(c) ==
    /\ pc[c] \in {"done", "panicked"}
    /\ pc' = [pc EXCEPT ![c] = "idle"]
    /\ op' = [op EXCEPT ![c] = NoOp]
    /\ prev' = [prev EXCEPT ![c] = "-"]
    /\ io' = [io EXCEPT ![c] = <<>>]
    /\ ret' = [ret EXCEPT ![c] = NoRet]
    /\ entry' = [entry EXCEPT ![c] = NoEntry]
    /\ UNCHANGED <<dev, lastSel>>

\* the history variables stay as they are unless the history is followed
Quiet == UNCHANGED hist

Next ==
    \E c \in Callers :
        \/ set_channel(c) /\ Quiet
        \/ enable_output(c) /\ Quiet
        \/ enable_channels(c) /\ Quiet
        \/ select_channel(c) /\ Quiet
        \/ switch_to_front_panel_control(c) /\ Quiet
        \/ switch_to_front_remote_control(c) /\ Quiet
        \/ set_parallel(c) /\ Quiet
        \/ set_series(c) /\ Quiet
        \/ get_channel_write(c) /\ Quiet
        \/ get_channel_read(c) /\ Quiet
        \/ enable_channel_query(c) /\ Quiet
        \/ enable_channel_save(c) /\ Quiet
        \/ enable_channel_select(c) /\ Quiet
        \/ enable_channel_toggle(c) /\ Quiet
        \/ enable_channel_restore(c) /\ Quiet
        \/ read_current_write(c, FewLines) /\ Quiet
        \/ read_current_read(c) /\ Quiet
        \/ read_voltage_write(c, FewLines) /\ Quiet
        \/ read_voltage_read(c) /\ Quiet
        \/ read_power_write(c, FewLines) /\ Quiet
        \/ read_power_read(c) /\ Quiet
        \/ Return(c) /\ Quiet

Spec == Init /\ [][Next]_vars

\* The three measurement queries alone, with every line the instrument can
\* answer with.
NextParse ==
    \E c \in Callers :
        \/ read_current_write(c, AllLines) /\ Quiet
        \/ read_current_read(c) /\ Quiet
        \/ read_voltage_write(c, AllLines) /\ Quiet
        \/ read_voltage_read(c) /\ Quiet
        \/ read_power_write(c, AllLines) /\ Quiet
        \/ read_power_read(c) /\ Quiet
        \/ Return(c) /\ Quiet

SpecParse == Init /\ [][NextParse]_vars

\* The calls of one caller, one after the other, with the history of the
\* calls: whether all of them returned Ok, and which call returned last.
History(c) ==
    /\ clean' = (clean /\ pc'[c] # "panicked"
                       /\ (pc'[c] = "done" => ret'[c].kind = "Ok"))
    /\ prevCall' = IF pc'[c] # "idle" THEN prevCall
                   ELSE IF pc[c] = "done" /\ op[c].name = "enable_channel"
                           /\ ret[c].kind = "Ok"
                        THEN Call(op[c].channel, op[c].state)
                        ELSE NoCall

NextHist ==
    \E c \in {1} :
        \/ set_channel(c) /\ History(c)
        \/ enable_output(c) /\ History(c)
        \/ enable_channels(c) /\ History(c)
        \/ select_channel(c) /\ History(c)
        \/ switch_to_front_panel_control(c) /\ History(c)
        \/ switch_to_front_remote_control(c) /\ History(c)
        \/ set_parallel(c) /\ History(c)
        \/ set_series(c) /\ History(c)
        \/ get_channel_write(c) /\ History(c)
        \/ get_channel_read(c) /\ History(c)
        \/ enable_channel_query(c) /\ History(c)
        \/ enable_channel_save(c) /\ History(c)
        \/ enable_channel_select(c) /\ History(c)
        \/ enable_channel_toggle(c) /\ History(c)
        \/ enable_channel_restore(c) /\ History(c)
        \/ read_current_write(c, FewLines) /\ History(c)
        \/ read_current_read(c) /\ History(c)
        \/ read_voltage_write(c, FewLines) /\ History(c)
        \/ read_voltage_read(c) /\ History(c)
        \/ read_power_write(c, FewLines) /\ History(c)
        \/ read_power_read(c) /\ History(c)
        \/ Return(c) /\ History(c)

SpecHist == Init /\ [][NextHist]_vars


\* =================================================================== claims
\* the instrument's number of a channel of the driver (spec, 3: Channel)
ChanNo(channel) ==
    CASE channel = "CH1" -> 1 [] channel = "CH2" -> 2 [] channel = "CH3" -> 3

IsOn(state) == state = "ON"
Running(c, name) == op[c].name = name
Done(c, name) == pc[c] = "done" /\ op[c].name = name
DoneOk(c, name) == Done(c, name) /\ ret[c].kind = "Ok"
Failed(c, i) == Len(io[c]) >= i /\ ~io[c][i].ok
IsSelection(call) == call.t = "write" /\ \E n \in DevChannels : call.text = DevSelect[n]
Selections(c) == {i \in 1..Len(io[c]) : IsSelection(io[c][i])}

QueryOps == {"get_channel", "read_current", "read_voltage", "read_power"}
MeasureOps == {"read_current", "read_voltage", "read_power"}
CommandOps == {"set_channel", "enable_output", "enable_channels", "select_channel",
               "switch_to_front_panel_control", "switch_to_front_remote_control",
               "set_parallel", "set_series"}

\* C1: after a successful enable_channel(B, s) that began with channel A # B
\* selected, the instrument has A selected again, every answer to INST? that
\* get_channel accepts decodes to A, and the output state of B is s.
C1_Restore ==
    \A c \in Callers :
        (DoneOk(c, "enable_channel") /\ entry[c].sel # ChanNo(op[c].channel)) =>
            /\ sel = entry[c].sel
            /\ \A a \in InstAnswers(sel) :
                   DecodeChannel(a).ok => ChanNo(DecodeChannel(a).channel) = entry[c].sel
            /\ outp[ChanNo(op[c].channel)] = IsOn(op[c].state)

C1_Witness ==
    \E c \in Callers :
        /\ DoneOk(c, "enable_channel")
        /\ entry[c].sel = 2 /\ op[c].channel = "CH3" /\ op[c].state = "ON"
        /\ ~entry[c].outp[3]
        /\ Len(io[c]) = 5

\* C2: when the write of CHAN:OUTP (the fourth transport call of
\* enable_channel) fails, enable_channel has returned the transport error, the
\* failed write is its last transport call, and the only selection command it
\* sent is INST <target>; the restore command was not sent.
C2_FailAtToggle ==
    \A c \in Callers :
        (Running(c, "enable_channel") /\ Failed(c, 4)) =>
            /\ pc[c] = "done" /\ ret[c].kind = "Err"
            /\ Len(io[c]) = 4
            /\ io[c][4].text \in {DevChanOutpOn, DevChanOutpOff}
            /\ Selections(c) = {3}
            /\ io[c][3] = WriteCall(DevSelect[ChanNo(op[c].channel)], TRUE)

C2_Witness ==
    \E c \in Callers :
        /\ Done(c, "enable_channel") /\ Failed(c, 4)
        /\ prev[c] # op[c].channel
        /\ sel = ChanNo(op[c].channel)

\* C3: in every operation a failed transport call is the last transport call
\* of the operation, the operation has then returned the transport error, an
\* operation returns an error only after a failed transport call, and no
\* command is written again after a failed write of it.
C3_AbortOnFirstFailure ==
    \A c \in Callers :
        /\ \A i \in 1..Len(io[c]) :
               ~io[c][i].ok => (i = Len(io[c]) /\ pc[c] = "done" /\ ret[c].kind = "Err")
        /\ (pc[c] = "done" /\ ret[c].kind = "Err") => Failed(c, Len(io[c]))
        /\ \A i, j \in 1..Len(io[c]) :
               (i < j /\ io[c][i].t = "write" /\ io[c][j].t = "write"
                      /\ io[c][i].text = io[c][j].text) => io[c][i].ok
        /\ Running(c, "enable_channel") => Len(io[c]) <= 5

C3_Witness ==
    \E c \in Callers :
        /\ Done(c, "enable_channel") /\ Failed(c, 3) /\ Len(io[c]) = 3
        /\ ret[c].kind = "Err"

\* C4: when get_channel (alone or as step 1 of enable_channel) reads a token
\* that is none of CH1, CH2, CH3, the operation returns a ProtocolDecodeError
\* as an error value.
C4_DecodeErrorReturned ==
    \A c \in Callers :
        (op[c].name \in {"get_channel", "enable_channel"}
            /\ Len(io[c]) >= 2 /\ io[c][2].ok /\ io[c][2].text = UnknownToken) =>
                /\ pc[c] = "done"
                /\ ret[c].kind = "Err"
                /\ ret[c].val = "ProtocolDecodeError"

\* values of the field samples, as the instrument means them
SampleValue(f) ==
    CASE f = <<"1", ".", "0">> -> F32(FALSE, 1, 0)
      [] f = <<" ", "2", ".", "5", "\n">> -> F32(FALSE, 25, -1)
      [] f = <<"-", "3", "e", "1">> -> F32(TRUE, 3, 1)
      [] f = <<"b", "a", "d">> -> Zero
      [] f = <<>> -> Zero

Commas(text) == Cardinality({i \in 1..Len(text) : text[i] = ","})
ReadText(c) == io[c][2].text

\* C5: when a measurement query has read a line of three fields, position i
\* of the returned triple is the number of field i, white space around it
\* ignored, or 0.0 when field i is not a number, whatever the other fields are.
C5_PerFieldFallback ==
    \A c \in Callers :
        (pc[c] = "done" /\ op[c].name \in MeasureOps /\ ret[c].kind = "Ok") =>
            \A f1, f2, f3 \in FieldSamples :
                ReadText(c) = Join(<<f1, f2, f3>>) =>
                    ret[c].val = <<SampleValue(f1), SampleValue(f2), SampleValue(f3)>>

C5_Witness ==
    \E c \in Callers :
        /\ DoneOk(c, "read_voltage")
        /\ ReadText(c) = <<" ", "2", ".", "5", "\n", ",", "b", "a", "d", ",", "-", "3", "e", "1">>
        /\ ret[c].val = <<F32(FALSE, 25, -1), Zero, F32(TRUE, 3, 1)>>

\* C6: when a measurement query has read a line whose number of commas is not
\* 2, it returns the successful triple (0.0, 0.0, 0.0).
C6_ShapePolicy ==
    \A c \in Callers :
        (pc[c] = "done" /\ op[c].name \in MeasureOps /\ Len(io[c]) = 2 /\ io[c][2].ok
            /\ Commas(ReadText(c)) # 2) =>
                (ret[c].kind = "Ok" /\ ret[c].val = <<Zero, Zero, Zero>>)

C6_Witness ==
    \E c \in Callers :
        /\ DoneOk(c, "read_power")
        /\ ReadText(c) = <<"1", ".", "0", ",", "1", ".", "0", ",", "1", ".", "0", ",", "1", ".", "0">>
        /\ ret[c].val = <<Zero, Zero, Zero>>

\* C7: a measurement query never panics, and when it has returned, the result
\* is an error exactly when its write or its read failed; otherwise it is a
\* successful triple, for every line that was read.
C7_NoParseError ==
    \A c \in Callers :
        op[c].name \in MeasureOps =>
            /\ pc[c] # "panicked"
            /\ pc[c] = "done" =>
                   /\ ret[c].kind = "Err" <=> \E i \in 1..Len(io[c]) : ~io[c][i].ok
                   /\ ret[c].kind = "Ok" <=> (Len(io[c]) = 2 /\ io[c][1].ok /\ io[c][2].ok)
                   /\ ret[c].kind \in {"Ok", "Err"}

C7_Witness ==
    \E c \in Callers :
        /\ DoneOk(c, "read_current")
        /\ ReadText(c) = <<"b", "a", "d", ",", ",", "b", "a", "d">>

C9_WriteReadShape ==
    \A c \in Callers :
        /\ Len(io[c]) >= 1 => io[c][1].t = "write"
        /\ op[c].name \in QueryOps =>
               /\ Len(io[c]) \in 1..2
               /\ Len(io[c]) = 2 => (io[c][1].ok /\ io[c][2].t = "read")
               /\ (pc[c] = "done" /\ io[c][1].ok) => Len(io[c]) = 2
               /\ pc[c] \notin {"done", "panicked"} => (Len(io[c]) = 1 /\ io[c][1].ok)
        /\ op[c].name \in CommandOps =>
               /\ pc[c] = "done"
               /\ Len(io[c]) = 1
               /\ ~obuf.full

C9_Witness ==
    \E c \in Callers :
        /\ DoneOk(c, "get_channel")
        /\ Len(io[c]) = 2
        /\ io[c][1] = WriteCall(CmdInstQuery, TRUE)
        /\ io[c][2].t = "read"

\* C10: select_channel(c) writes exactly INST CH<n> with the number n of c,
\* a successful select_channel(c) leaves channel n selected, and a successful
\* get_channel returns the channel whose number is the selected one, whether
\* or not the answer has white space around the token.
C10_SelectQueryRoundTrip ==
    \A c \in Callers :
        /\ Done(c, "select_channel") =>
               /\ Len(io[c]) = 1
               /\ io[c][1].t = "write"
               /\ io[c][1].text = DevSelect[ChanNo(op[c].channel)]
        /\ DoneOk(c, "select_channel") => sel = ChanNo(op[c].channel)
        /\ DoneOk(c, "get_channel") =>
               /\ ChanNo(ret[c].val) = sel
               /\ lastSel.by # 0 /\ sel = ChanNo(lastSel.channel) => ret[c].val = lastSel.channel

C10_Witness ==
    \E c \in Callers :
        /\ DoneOk(c, "get_channel")
        /\ ReadText(c) = <<" ", "C", "H", "3">>
        /\ ret[c].val = "CH3"
        /\ lastSel = [by |-> c, channel |-> "CH3"]


\* C11: set_parallel(ON) writes exactly OUTP:PAR CH1CH2, set_parallel(OFF)
\* writes exactly OUTP:PAR OFF, and that write is the only transport call of
\* the operation.
C11_ParallelEncoding ==
    \A c \in Callers :
        Running(c, "set_parallel") =>
            /\ Len(io[c]) = 1
            /\ io[c][1].t = "write"
            /\ op[c].state = "ON" => io[c][1].text = <<"O", "U", "T", "P", ":", "P", "A", "R", " ", "C", "H", "1", "C", "H", "2">>
            /\ op[c].state = "OFF" => io[c][1].text = <<"O", "U", "T", "P", ":", "P", "A", "R", " ", "O", "F", "F">>

C11_Witness ==
    \E c \in Callers :
        /\ DoneOk(c, "set_parallel")
        /\ op[c].state = "ON"
        /\ io[c] = <<WriteCall(<<"O", "U", "T", "P", ":", "P", "A", "R", " ", "C", "H", "1", "C", "H", "2">>, TRUE)>>

\* the token that follows the 10 characters of a command's keyword
SentToken(call) == Drop(call.text, 10)

\* C12: the token the send path writes for an output state (after OUTP:ENAB
\* in enable_output and enable_channels, after CHAN:OUTP in enable_channel)
\* is decoded by the receive path to that same output state.
C12_StateRoundTrip ==
    \A c \in Callers :
        /\ op[c].name \in {"enable_output", "enable_channels"} =>
               /\ Take(io[c][1].text, 10) = <<"O", "U", "T", "P", ":", "E", "N", "A", "B", " ">>
               /\ ParseState(SentToken(io[c][1])) = [ok |-> TRUE, state |-> op[c].state]
        /\ (Running(c, "enable_channel") /\ Len(io[c]) >= 4) =>
               /\ Take(io[c][4].text, 10) = <<"C", "H", "A", "N", ":", "O", "U", "T", "P", " ">>
               /\ ParseState(SentToken(io[c][4])) = [ok |-> TRUE, state |-> op[c].state]

C12_Witness ==
    \E c \in Callers :
        /\ Done(c, "enable_channel") /\ Len(io[c]) >= 4
        /\ op[c].state = "OFF"
        /\ SentToken(io[c][4]) = <<"O", "F", "F">>

\* C13: the transport calls of enable_channel(B, s) are, in this order, the
\* write INST?, a read, the write INST <B>, the write CHAN:OUTP <s> and the
\* write INST <P>, P being the channel whose token was read; each of them is
\* made only after the one before it succeeded, and no other caller is inside
\* an operation meanwhile.
C13_EnableChannelOrder ==
    \A c \in Callers :
        Running(c, "enable_channel") =>
            LET l == io[c] IN
            /\ Len(l) \in 1..5
            /\ l[1].t = "write" /\ l[1].text = DevQueryChannel
            /\ Len(l) >= 2 => (l[1].ok /\ l[2].t = "read")
            /\ Len(l) >= 3 =>
                   (l[2].ok /\ l[3].t = "write"
                            /\ l[3].text = DevSelect[ChanNo(op[c].channel)])
            /\ Len(l) >= 4 =>
                   (l[3].ok /\ l[4].t = "write"
                            /\ l[4].text = (IF op[c].state = "ON" THEN DevChanOutpOn
                                                                 ELSE DevChanOutpOff))
            /\ Len(l) >= 5 =>
                   (l[4].ok /\ l[5].t = "write"
                            /\ \E n \in DevChannels :
                                   /\ l[2].text \in InstAnswers(n) \ {UnknownToken}
                                   /\ l[5].text = DevSelect[n])
            /\ \A d \in Callers \ {c} : io[d] = <<>>

C13_Witness ==
    \E c \in Callers :
        /\ DoneOk(c, "enable_channel")
        /\ op[c].channel = "CH1" /\ op[c].state = "OFF"
        /\ io[c][2].text = <<"C", "H", "3">> \o <<"\n">>
        /\ io[c][5] = WriteCall(DevSelect[3], TRUE)

\* C14: when the first four transport calls of enable_channel(B, s) succeed
\* and the write of the restore command fails, with B different from the
\* channel A selected at entry, enable_channel has returned the error while
\* the instrument has B selected and B's output state is s.
C14_FailAtRestore ==
    \A c \in Callers :
        (Running(c, "enable_channel") /\ Failed(c, 5)
            /\ entry[c].sel # ChanNo(op[c].channel)) =>
                /\ pc[c] = "done" /\ ret[c].kind = "Err"
                /\ sel = ChanNo(op[c].channel)
                /\ sel # entry[c].sel
                /\ outp[ChanNo(op[c].channel)] = IsOn(op[c].state)

C14_Witness ==
    \E c \in Callers :
        /\ Done(c, "enable_channel") /\ Failed(c, 5)
        /\ ret[c].kind = "Err"
        /\ entry[c].sel = 1 /\ op[c].channel = "CH2" /\ op[c].state = "ON"
        /\ ~entry[c].outp[2] /\ outp[2]
        /\ sel = 2

IsToggle(call) == call.t = "write" /\ call.text \in {DevChanOutpOn, DevChanOutpOff}

\* C15: when the write of INST? or the read of its answer fails in
\* enable_channel, enable_channel has returned the error, it has written no
\* INST <CH> and no CHAN:OUTP, and the instrument's selected channel and
\* output states are those at entry.
C15_FailAtQuery ==
    \A c \in Callers :
        (Running(c, "enable_channel") /\ (Failed(c, 1) \/ Failed(c, 2))) =>
            /\ pc[c] = "done" /\ ret[c].kind = "Err"
            /\ Selections(c) = {}
            /\ \A i \in 1..Len(io[c]) : ~IsToggle(io[c][i])
            /\ sel = entry[c].sel
            /\ outp = entry[c].outp

C15_Witness ==
    \E c \in Callers :
        /\ Done(c, "enable_channel") /\ Failed(c, 2)
        /\ io[c][2].t = "read"
        /\ sel = 3 /\ outp[2]
        /\ op[c].channel = "CH1" /\ op[c].state = "ON"

\* C16: after a successful enable_channel(B, s) the output state of every
\* channel other than B is the one it had at entry.
C16_Frame ==
    \A c \in Callers :
        DoneOk(c, "enable_channel") =>
            \A n \in DevChannels \ {ChanNo(op[c].channel)} : outp[n] = entry[c].outp[n]

C16_Witness ==
    \E c \in Callers :
        /\ DoneOk(c, "enable_channel")
        /\ op[c].channel = "CH2" /\ op[c].state = "OFF"
        /\ entry[c].outp = <<TRUE, TRUE, FALSE>>
        /\ outp = <<TRUE, FALSE, FALSE>>
        /\ entry[c].sel = 1

OtherOps == (CommandOps \ {"select_channel"}) \cup QueryOps

\* C17: an operation other than select_channel and enable_channel writes no
\* INST <CH> and leaves the selected channel as it was at entry; and as long
\* as every call of the single caller has returned Ok, between calls the
\* selected channel is the argument of the last select_channel call, or the
\* initial selection when there was none.
C17_OnlySelectSelects ==
    /\ \A c \in Callers :
           op[c].name \in OtherOps => (Selections(c) = {} /\ sel = entry[c].sel)
    /\ (clean /\ \A c \in Callers : pc[c] \in {"idle", "done"}) =>
           sel = ChanNo(lastSel.channel)

C17_Witness ==
    /\ clean
    /\ lastSel = [by |-> 1, channel |-> "CH3"]
    /\ DoneOk(1, "enable_channel") /\ op[1].channel = "CH2"
    /\ outp[1]
    /\ sel = 3

\* C18: a successful enable_channel(A, s) that began with A selected has made
\* all five transport calls, has written INST <A> at the select step and at
\* the restore step, leaves A selected and A's output state s; every
\* successful enable_channel leaves the channel selected that was selected at
\* entry.
C18_TargetIsSelected ==
    \A c \in Callers :
        DoneOk(c, "enable_channel") =>
            /\ sel = entry[c].sel
            /\ entry[c].sel = ChanNo(op[c].channel) =>
                   /\ Len(io[c]) = 5
                   /\ io[c][3] = WriteCall(DevSelect[entry[c].sel], TRUE)
                   /\ io[c][5] = WriteCall(DevSelect[entry[c].sel], TRUE)
                   /\ outp[entry[c].sel] = IsOn(op[c].state)

C18_Witness ==
    \E c \in Callers :
        /\ DoneOk(c, "enable_channel")
        /\ entry[c].sel = 2 /\ op[c].channel = "CH2" /\ op[c].state = "ON"
        /\ ~entry[c].outp[2] /\ outp[2]
        /\ sel = 2

\* C19: when a successful enable_channel(B, s) directly follows a successful
\* enable_channel(B, s) of the same caller, the second call leaves the
\* selected channel and all output states as the first call left them.
C19_Idempotent ==
    \A c \in Callers :
        (DoneOk(c, "enable_channel") /\ prevCall = Call(op[c].channel, op[c].state)) =>
            /\ sel = entry[c].sel
            /\ outp = entry[c].outp

C19_Witness ==
    \E c \in Callers :
        /\ DoneOk(c, "enable_channel")
        /\ prevCall = Call("CH3", "ON")
        /\ op[c].channel = "CH3" /\ op[c].state = "ON"
        /\ sel = 2 /\ outp = <<FALSE, TRUE, TRUE>>

====
